---- MODULE Spec2Model ----
(***************************************************************************)
(* bfint: a Brainfuck interpreter (src/src/main.rs).                       *)
(*                                                                         *)
(* parse_data scans the source one byte at a time, folding runs of the     *)
(* same operator into one counted instruction and linking brackets;        *)
(* run_program interprets the instruction stream over a fixed-size byte    *)
(* memory.  Indices (instruction indices, the data pointer) are 0-based    *)
(* as in the source; TLA+ sequences are 1-based, so At(s, i) reads s[i+1]. *)
(***************************************************************************)
EXTENDS Integers, Sequences, FiniteSets, TLC

VARIABLES
    data,              \* parse_data: the source bytes
    pos,               \* parse_data: number of bytes of data consumed by the for loop
    instructions,      \* parse_data: Vec<Option<BFInstruction>>
    loop_stack,        \* parse_data: Vec<usize>
    last_instruction,  \* parse_data: Option<BFInstruction>, the pending run
    pc,                \* "scan", "parse_failed", "parsed", "run", "returned"
    program,           \* parse_data's return value = run_program's program
    memory_size,       \* run_program: argument
    program_counter,   \* run_program
    data_pointer,      \* run_program
    memory,            \* run_program: vec![0u8; memory_size], a function on 0..memory_size-1
    stdin,             \* the bytes the standard input has delivered so far
    stdin_eof,         \* the standard input has reported its end (a read returned Ok(0))
    stdout,            \* the bytes written to the standard output so far
    result,            \* ExecutionResult of run_program, "none" before it returns
    ref,               \* a reference interpreter run beside run_program (its state)
    behind             \* the reference interpreter has yet to execute the source
                       \* bytes of the instruction run_program executed last

vars == <<data, pos, instructions, loop_stack, last_instruction, pc, program,
          memory_size, program_counter, data_pointer, memory, stdin, stdin_eof,
          stdout, result, ref, behind>>

ref_vars == <<ref, behind>>

parse_vars == <<data, pos, instructions, loop_stack, last_instruction>>
run_vars == <<memory_size, program_counter, data_pointer, memory, stdin, stdin_eof,
              stdout, result>>

-----------------------------------------------------------------------------
(* Widths and bytes *)

\* u8: the payload of Add/Subtract and the memory cells
CellMod == 256

\* usize is modelled WordBits wide (TLC's integers are 32-bit)
WordBits == 16
PtrMod == 2 ^ WordBits

Plus == 43
Minus == 45
Greater == 62
Less == 60
Dot == 46
Comma == 44
LBracket == 91
RBracket == 93

Opcodes == {Plus, Minus, Greater, Less, Dot, Comma, LBracket, RBracket}

\* representatives of the bytes matched by the `_ => {}` arm
CommentBytes == {32}

Bytes == Opcodes \cup CommentBytes

-----------------------------------------------------------------------------
(* enum BFInstruction, and Option's None *)

Add(val) == [tag |-> "Add", val |-> val]
Subtract(val) == [tag |-> "Subtract", val |-> val]
IncrementPointer(by) == [tag |-> "IncrementPointer", val |-> by]
DecrementPointer(by) == [tag |-> "DecrementPointer", val |-> by]
Output == [tag |-> "Output", val |-> 0]
Input == [tag |-> "Input", val |-> 0]
LoopStart(idx) == [tag |-> "LoopStart", val |-> idx]
LoopEnd(idx) == [tag |-> "LoopEnd", val |-> idx]
None == [tag |-> "None", val |-> 0]

At(s, i) == s[i + 1]

FoldableTags == {"Add", "Subtract", "IncrementPointer", "DecrementPointer"}

-----------------------------------------------------------------------------
(* parse_data: the body of the for loop, on the record                     *)
(* st = [instructions, loop_stack, last_instruction, failed]               *)

\* the four foldable arms have one shape: match last_instruction.take()
\*   Some(Tag(val))  => last_instruction = Some(Tag(val.wrapping_add(1)))
\*   Some(other)     => push Some(other); last_instruction = Some(Tag(1))
\*   None            => last_instruction = Some(Tag(1))
FoldNoMerge(st, tag, modulus) ==
    IF st.last_instruction # None
    THEN [st EXCEPT !.instructions = Append(@, st.last_instruction),
                    !.last_instruction = [tag |-> tag, val |-> 1]]
    ELSE [st EXCEPT !.last_instruction = [tag |-> tag, val |-> 1]]

FoldSaturating(st, tag, modulus) ==
    IF st.last_instruction.tag = tag
    THEN [st EXCEPT !.last_instruction =
             [tag |-> tag,
              val |-> IF st.last_instruction.val + 1 >= modulus
                      THEN modulus - 1 ELSE st.last_instruction.val + 1]]
    ELSE IF st.last_instruction # None
    THEN [st EXCEPT !.instructions = Append(@, st.last_instruction),
                    !.last_instruction = [tag |-> tag, val |-> 1]]
    ELSE [st EXCEPT !.last_instruction = [tag |-> tag, val |-> 1]]

OppositeTag(tag) ==
    CASE tag = "Add" -> "Subtract"
      [] tag = "Subtract" -> "Add"
      [] tag = "IncrementPointer" -> "DecrementPointer"
      [] tag = "DecrementPointer" -> "IncrementPointer"

FoldCancelling(st, tag, modulus) ==
    IF st.last_instruction.tag = tag
    THEN [st EXCEPT !.last_instruction =
             [tag |-> tag, val |-> (st.last_instruction.val + 1) % modulus]]
    ELSE IF st.last_instruction.tag = OppositeTag(tag)
    THEN [st EXCEPT !.last_instruction =
             IF st.last_instruction.val = 1 THEN None
             ELSE [tag |-> st.last_instruction.tag,
                   val |-> (st.last_instruction.val - 1) % modulus]]
    ELSE IF st.last_instruction # None
    THEN [st EXCEPT !.instructions = Append(@, st.last_instruction),
                    !.last_instruction = [tag |-> tag, val |-> 1]]
    ELSE [st EXCEPT !.last_instruction = [tag |-> tag, val |-> 1]]

Fold(st, tag, modulus) ==
    IF st.last_instruction.tag = tag
    THEN [st EXCEPT !.last_instruction =
             [tag |-> tag, val |-> (st.last_instruction.val + 1) % modulus]]
    ELSE IF st.last_instruction # None
    THEN [st EXCEPT !.instructions = Append(@, st.last_instruction),
                    !.last_instruction = [tag |-> tag, val |-> 1]]
    ELSE [st EXCEPT !.last_instruction = [tag |-> tag, val |-> 1]]

ParsePlus(st) == Fold(st, "Add", CellMod)
ParseMinus(st) == Fold(st, "Subtract", CellMod)
ParseGreater(st) == Fold(st, "IncrementPointer", PtrMod)
ParseLess(st) == Fold(st, "DecrementPointer", PtrMod)

\* if let Some(last) = last_instruction.take() { instructions.push(Some(last)); }
Commit(st) ==
    IF st.last_instruction # None
    THEN [st EXCEPT !.instructions = Append(@, st.last_instruction),
                    !.last_instruction = None]
    ELSE st

ParseDot(st) == [Commit(st) EXCEPT !.instructions = Append(@, Output)]

ParseComma(st) == [Commit(st) EXCEPT !.instructions = Append(@, Input)]

ParseLoopStart(st) ==
    LET c == Commit(st)
    IN  [c EXCEPT !.loop_stack = Append(@, Len(c.instructions)),
                  !.instructions = Append(@, None)]

ParseLoopEndNoPop(st) ==
    LET c == Commit(st)
    IN  IF c.loop_stack = <<>>
        THEN [c EXCEPT !.failed = TRUE]
        ELSE LET loop_start_idx == c.loop_stack[Len(c.loop_stack)]
             IN  [c EXCEPT
                    !.instructions =
                        Append([@ EXCEPT ![loop_start_idx + 1] =
                                             LoopStart(Len(c.instructions))],
                               LoopEnd(loop_start_idx))]

ParseLoopEndNoCheck(st) ==
    LET c == Commit(st)
    IN  IF c.loop_stack = <<>>
        THEN [c EXCEPT !.instructions = Append(@, LoopEnd(0))]
        ELSE LET loop_start_idx == c.loop_stack[Len(c.loop_stack)]
             IN  [c EXCEPT
                    !.loop_stack = SubSeq(@, 1, Len(@) - 1),
                    !.instructions =
                        Append([@ EXCEPT ![loop_start_idx + 1] =
                                             LoopStart(Len(c.instructions))],
                               LoopEnd(loop_start_idx))]

ParseLoopEndOffByOne(st) ==
    LET c == Commit(st)
    IN  IF c.loop_stack = <<>>
        THEN [c EXCEPT !.failed = TRUE]
        ELSE LET loop_start_idx == c.loop_stack[Len(c.loop_stack)]
             IN  [c EXCEPT
                    !.loop_stack = SubSeq(@, 1, Len(@) - 1),
                    !.instructions =
                        Append([@ EXCEPT ![loop_start_idx + 1] =
                                             LoopStart(Len(c.instructions) + 1)],
                               LoopEnd(loop_start_idx))]

\* loop_stack.pop()? returns None from parse_data when the stack is empty
ParseLoopEnd(st) ==
    LET c == Commit(st)
    IN  IF c.loop_stack = <<>>
        THEN [c EXCEPT !.failed = TRUE]
        ELSE LET loop_start_idx == c.loop_stack[Len(c.loop_stack)]
             IN  [c EXCEPT
                    !.loop_stack = SubSeq(@, 1, Len(@) - 1),
                    !.instructions =
                        Append([@ EXCEPT ![loop_start_idx + 1] =
                                             LoopStart(Len(c.instructions))],
                               LoopEnd(loop_start_idx))]

ParseOtherCommits(st) == Commit(st)

\* _ => {}
ParseOther(st) == st

ParseByte(st, byte) ==
    CASE byte = Plus -> ParsePlus(st)
      [] byte = Minus -> ParseMinus(st)
      [] byte = Greater -> ParseGreater(st)
      [] byte = Less -> ParseLess(st)
      [] byte = Dot -> ParseDot(st)
      [] byte = Comma -> ParseComma(st)
      [] byte = LBracket -> ParseLoopStart(st)
      [] byte = RBracket -> ParseLoopEnd(st)
      [] OTHER -> ParseOther(st)

\* the code after the for loop: commit the residual run, then
\* `instruction?` on every element fails on the first None
ParseEndNoCheck(st) ==
    LET c == Commit(st)
    IN  [ok |-> TRUE, program |-> c.instructions]

ParseEnd(st) ==
    LET c == Commit(st)
    IN  IF \E i \in 1..Len(c.instructions) : c.instructions[i] = None
        THEN [ok |-> FALSE, program |-> <<>>]
        ELSE [ok |-> TRUE, program |-> c.instructions]

ParseInit ==
    [instructions |-> <<>>, loop_stack |-> <<>>, last_instruction |-> None,
     failed |-> FALSE]

\* parse_data as a function of the source: the fold of ParseByte over the
\* bytes, stopping at the first failure, then ParseEnd
RECURSIVE ParseScan(_, _, _)
ParseScan(st, d, i) ==
    IF st.failed \/ i > Len(d) THEN st ELSE ParseScan(ParseByte(st, d[i]), d, i + 1)

parse_data(d) ==
    LET st == ParseScan(ParseInit, d, 1)
    IN  IF st.failed THEN [ok |-> FALSE, program |-> <<>>] ELSE ParseEnd(st)

-----------------------------------------------------------------------------
(* Sources *)

MaxLen == 4
MaxNest == 6

SeqsUpTo(S, n) == UNION {[1..k -> S] : k \in 0..n}

Rep(b, n) == [k \in 1..n |-> b]

\* every source of at most MaxLen bytes
ShortSources == SeqsUpTo(Bytes, MaxLen)

\* longer sources over brackets and one operator
BracketSources == SeqsUpTo({LBracket, RBracket, Plus}, MaxNest)

\* runs of one foldable operator around the width of the u8 counter,
\* with at most one other byte inside
LongSources ==
    {Rep(b, i) \o x \o Rep(b, j) :
        b \in {Plus, Minus, Greater, Less},
        i \in {CellMod - 1, CellMod, CellMod + 1},
        x \in SeqsUpTo(Bytes, 1),
        j \in {0, 1, CellMod}}

\* tests::optimizations: b"++++++.---,"
TestSources ==
    {<<Plus, Plus, Plus, Plus, Plus, Plus, Dot, Minus, Minus, Minus, Comma>>}

Sources == ShortSources \cup BracketSources \cup LongSources \cup TestSources

-----------------------------------------------------------------------------
(* The parser as a state machine *)

\* the reference interpreter before run_program is entered
RefIdle ==
    [pos |-> 0, data_pointer |-> 0, memory |-> <<>>, stdout |-> <<>>,
     consumed |-> 0, result |-> "none"]

ParserState ==
    [instructions |-> instructions, loop_stack |-> loop_stack,
     last_instruction |-> last_instruction, failed |-> FALSE]

InitWith(S) ==
    /\ data \in S
    /\ pos = 0
    /\ instructions = <<>>
    /\ loop_stack = <<>>
    /\ last_instruction = None
    /\ pc = "scan"
    /\ program = <<>>
    /\ memory_size = 0
    /\ program_counter = 0
    /\ data_pointer = 0
    /\ memory = <<>>
    /\ stdin = <<>>
    /\ stdin_eof = FALSE
    /\ stdout = <<>>
    /\ result = "none"
    /\ ref = RefIdle
    /\ behind = FALSE

InitParse == InitWith(Sources)

\* one iteration of `for &byte in data`
ScanByte ==
    /\ pc = "scan"
    /\ pos < Len(data)
    /\ LET st == ParseByte(ParserState, data[pos + 1])
       IN  /\ instructions' = st.instructions
           /\ loop_stack' = st.loop_stack
           /\ last_instruction' = st.last_instruction
           /\ pc' = IF st.failed THEN "parse_failed" ELSE "scan"
    /\ pos' = pos + 1
    /\ UNCHANGED <<data, program, run_vars>>

\* the end of the for loop: lines 89-98
EndOfInput ==
    /\ pc = "scan"
    /\ pos = Len(data)
    /\ LET r == ParseEnd(ParserState)
       IN  /\ pc' = IF r.ok THEN "parsed" ELSE "parse_failed"
           /\ program' = r.program
           /\ instructions' = Commit(ParserState).instructions
           /\ last_instruction' = None
    /\ UNCHANGED <<data, pos, loop_stack, run_vars>>

NextParse ==
    \/ ScanByte /\ UNCHANGED ref_vars
    \/ EndOfInput /\ UNCHANGED ref_vars

SpecParse == InitParse /\ [][NextParse]_vars

-----------------------------------------------------------------------------
(* run_program *)

MaxProg == 4
MaxMem == 2
MaxIn == 3
MaxOut == 4

\* the sources the pipeline is run on: every source of at most MaxProg bytes
\* (tests::invalid_memory_access: b">+", b"<+", b"<>+", b">[]" are among them)
ProgSources == SeqsUpTo(Bytes, MaxProg)

\* longer sources over `+`, `-` and brackets
MaxLoop == 5
LoopSources == SeqsUpTo({Plus, Minus, LBracket, RBracket}, MaxLoop)

\* the bytes the standard input may deliver, at most MaxIn of them before its end
InBytes == {0, 97, 98, 99}

\* runs of `+` or `-` around the width of the u8 counter, then at most a `.`
WrapSources ==
    {Rep(b, n) \o x :
        b \in {Plus, Minus},
        n \in {CellMod - 1, CellMod, CellMod + 1},
        x \in SeqsUpTo({Dot}, 1)}

Init == InitWith(ProgSources \cup LoopSources \cup WrapSources)

\* usize::wrapping_add, usize::wrapping_sub, u8::wrapping_add, u8::wrapping_sub
WrappingAdd(a, b, modulus) == (a + b) % modulus
WrappingSubSaturating(a, b, modulus) == IF a >= b THEN a - b ELSE 0
WrappingSub(a, b, modulus) == IF a >= b THEN a - b ELSE modulus - (b - a)

CurrentInstruction == At(program, program_counter)

\* the while condition holds and the match selects the arm of `tag`
Running(tag) ==
    /\ pc = "run"
    /\ program_counter < Len(program)
    /\ CurrentInstruction.tag = tag

\* memory.get(data_pointer) / memory.get_mut(data_pointer) is Some
InBounds == data_pointer \in DOMAIN memory

ReturnContinues(r) ==
    /\ pc' = pc
    /\ result' = r
    /\ program_counter' = program_counter + 1
    /\ UNCHANGED <<data_pointer, memory, stdin, stdin_eof, stdout>>

\* return ExecutionResult::...
Return(r) ==
    /\ pc' = "returned"
    /\ result' = r
    /\ UNCHANGED <<program_counter, data_pointer, memory, stdin, stdin_eof, stdout>>

\* main: run_program(&program, memory_size), up to the while loop
RunStart ==
    /\ pc = "parsed"
    /\ \E n \in 0..MaxMem :
          /\ memory_size' = n
          /\ memory' = [i \in 0..n - 1 |-> 0]
    /\ program_counter' = 0
    /\ data_pointer' = 0
    /\ stdout' = <<>>
    /\ pc' = "run"
    /\ UNCHANGED <<parse_vars, program, result, stdin, stdin_eof>>

ExecAddNoAdvance ==
    /\ Running("Add")
    /\ IF ~InBounds
       THEN Return("MemoryAccessError")
       ELSE /\ memory' = [memory EXCEPT ![data_pointer] =
                             WrappingAdd(@, CurrentInstruction.val, CellMod)]
            /\ UNCHANGED <<pc, result, program_counter, data_pointer, stdin, stdout>>
    /\ UNCHANGED <<parse_vars, program, memory_size, stdin_eof>>

ExecAdd ==
    /\ Running("Add")
    /\ IF ~InBounds
       THEN Return("MemoryAccessError")
       ELSE /\ memory' = [memory EXCEPT ![data_pointer] =
                             WrappingAdd(@, CurrentInstruction.val, CellMod)]
            /\ program_counter' = program_counter + 1
            /\ UNCHANGED <<pc, result, data_pointer, stdin, stdout>>
    /\ UNCHANGED <<parse_vars, program, memory_size, stdin_eof>>

ExecSubtract ==
    /\ Running("Subtract")
    /\ IF ~InBounds
       THEN Return("MemoryAccessError")
       ELSE /\ memory' = [memory EXCEPT ![data_pointer] =
                             WrappingSub(@, CurrentInstruction.val, CellMod)]
            /\ program_counter' = program_counter + 1
            /\ UNCHANGED <<pc, result, data_pointer, stdin, stdout>>
    /\ UNCHANGED <<parse_vars, program, memory_size, stdin_eof>>

ExecIncrementPointer ==
    /\ Running("IncrementPointer")
    /\ data_pointer' = WrappingAdd(data_pointer, CurrentInstruction.val, PtrMod)
    /\ program_counter' = program_counter + 1
    /\ UNCHANGED <<parse_vars, program, memory_size, pc, result, memory, stdin, stdin_eof,
                   stdout>>

ExecDecrementPointerChecked ==
    /\ Running("DecrementPointer")
    /\ IF data_pointer < CurrentInstruction.val
       THEN Return("MemoryAccessError")
       ELSE /\ data_pointer' = data_pointer - CurrentInstruction.val
            /\ program_counter' = program_counter + 1
            /\ UNCHANGED <<pc, result, memory, stdin, stdout>>
    /\ UNCHANGED <<parse_vars, program, memory_size, stdin_eof>>

ExecDecrementPointerSaturating ==
    /\ Running("DecrementPointer")
    /\ data_pointer' = IF data_pointer < CurrentInstruction.val
                       THEN 0 ELSE data_pointer - CurrentInstruction.val
    /\ program_counter' = program_counter + 1
    /\ UNCHANGED <<parse_vars, program, memory_size, pc, result, memory, stdin, stdin_eof,
                   stdout>>

ExecDecrementPointer ==
    /\ Running("DecrementPointer")
    /\ data_pointer' = WrappingSub(data_pointer, CurrentInstruction.val, PtrMod)
    /\ program_counter' = program_counter + 1
    /\ UNCHANGED <<parse_vars, program, memory_size, pc, result, memory, stdin, stdin_eof,
                   stdout>>

ExecOutputTwice ==
    /\ Running("Output")
    /\ Len(stdout) < MaxOut
    /\ IF ~InBounds
       THEN Return("MemoryAccessError")
       ELSE \E io \in {"ok", "write_err", "flush_err"} :
               IF io = "ok"
               THEN /\ stdout' = Append(Append(stdout, memory[data_pointer]),
                                             memory[data_pointer])
                    /\ program_counter' = program_counter + 1
                    /\ UNCHANGED <<pc, result, data_pointer, memory, stdin>>
               ELSE /\ pc' = "returned"
                    /\ result' = "IOError"
                    /\ stdout' \in IF io = "write_err"
                                   THEN {stdout}
                                   ELSE {stdout, Append(stdout, memory[data_pointer])}
                    /\ UNCHANGED <<program_counter, data_pointer, memory, stdin>>
    /\ UNCHANGED <<parse_vars, program, memory_size, stdin_eof>>

\* stdout.write(&[current_byte]).is_err() || stdout.flush().is_err():
\* the write fails, or the write succeeds and the flush fails (the byte is then
\* in the buffer and may or may not have reached the output), or both succeed.
\* A run is followed until it has written MaxOut bytes.
ExecOutput ==
    /\ Running("Output")
    /\ Len(stdout) < MaxOut
    /\ IF ~InBounds
       THEN Return("MemoryAccessError")
       ELSE \E io \in {"ok", "write_err", "flush_err"} :
               IF io = "ok"
               THEN /\ stdout' = Append(stdout, memory[data_pointer])
                    /\ program_counter' = program_counter + 1
                    /\ UNCHANGED <<pc, result, data_pointer, memory, stdin>>
               ELSE /\ pc' = "returned"
                    /\ result' = "IOError"
                    /\ stdout' \in IF io = "write_err"
                                   THEN {stdout}
                                   ELSE {stdout, Append(stdout, memory[data_pointer])}
                    /\ UNCHANGED <<program_counter, data_pointer, memory, stdin>>
    /\ UNCHANGED <<parse_vars, program, memory_size, stdin_eof>>

\* what stdin.read(&mut read_byte) may return: Err, Ok(0) at the end of the
\* input, or Ok(1) with the next byte; the end of the input, once reported,
\* is reported by every later read (a file or a closed pipe)
ReadOutcomes ==
    {[kind |-> "err", byte |-> 0], [kind |-> "eof", byte |-> 0]}
        \cup IF stdin_eof \/ Len(stdin) >= MaxIn
             THEN {}
             ELSE {[kind |-> "byte", byte |-> b] : b \in InBytes}

ExecInputEofKeepsCell ==
    /\ Running("Input")
    /\ IF ~InBounds
       THEN Return("MemoryAccessError")
       ELSE \E io \in ReadOutcomes :
               CASE io.kind = "err" -> Return("IOError")
                 [] io.kind = "eof" ->
                       /\ memory' = memory
                       /\ stdin_eof' = TRUE
                       /\ program_counter' = program_counter + 1
                       /\ UNCHANGED <<pc, result, data_pointer, stdin, stdout>>
                 [] io.kind = "byte" ->
                       /\ memory' = [memory EXCEPT ![data_pointer] = io.byte]
                       /\ stdin' = Append(stdin, io.byte)
                       /\ program_counter' = program_counter + 1
                       /\ UNCHANGED <<pc, result, data_pointer, stdin_eof, stdout>>
    /\ UNCHANGED <<parse_vars, program, memory_size>>

ExecInputEofMinusOne ==
    /\ Running("Input")
    /\ IF ~InBounds
       THEN Return("MemoryAccessError")
       ELSE \E io \in ReadOutcomes :
               CASE io.kind = "err" -> Return("IOError")
                 [] io.kind = "eof" ->
                       /\ memory' = [memory EXCEPT ![data_pointer] = CellMod - 1]
                       /\ stdin_eof' = TRUE
                       /\ program_counter' = program_counter + 1
                       /\ UNCHANGED <<pc, result, data_pointer, stdin, stdout>>
                 [] io.kind = "byte" ->
                       /\ memory' = [memory EXCEPT ![data_pointer] = io.byte]
                       /\ stdin' = Append(stdin, io.byte)
                       /\ program_counter' = program_counter + 1
                       /\ UNCHANGED <<pc, result, data_pointer, stdin_eof, stdout>>
    /\ UNCHANGED <<parse_vars, program, memory_size>>

ExecInput ==
    /\ Running("Input")
    /\ IF ~InBounds
       THEN Return("MemoryAccessError")
       ELSE \E io \in ReadOutcomes :
               CASE io.kind = "err" -> Return("IOError")
                 [] io.kind = "eof" ->
                       /\ memory' = [memory EXCEPT ![data_pointer] = 0]
                       /\ stdin_eof' = TRUE
                       /\ program_counter' = program_counter + 1
                       /\ UNCHANGED <<pc, result, data_pointer, stdin, stdout>>
                 [] io.kind = "byte" ->
                       /\ memory' = [memory EXCEPT ![data_pointer] = io.byte]
                       /\ stdin' = Append(stdin, io.byte)
                       /\ program_counter' = program_counter + 1
                       /\ UNCHANGED <<pc, result, data_pointer, stdin_eof, stdout>>
    /\ UNCHANGED <<parse_vars, program, memory_size>>

ExecLoopStartUnchecked ==
    /\ Running("LoopStart")
    /\ program_counter' =
          (IF ~InBounds \/ memory[data_pointer] = 0
           THEN CurrentInstruction.val ELSE program_counter) + 1
    /\ UNCHANGED <<pc, result, data_pointer, memory, stdin, stdout>>
    /\ UNCHANGED <<parse_vars, program, memory_size, stdin_eof>>

\* if current_byte == 0 { program_counter = idx; } then program_counter += 1
ExecLoopStart ==
    /\ Running("LoopStart")
    /\ IF ~InBounds
       THEN Return("MemoryAccessError")
       ELSE /\ program_counter' =
                  (IF memory[data_pointer] = 0
                   THEN CurrentInstruction.val ELSE program_counter) + 1
            /\ UNCHANGED <<pc, result, data_pointer, memory, stdin, stdout>>
    /\ UNCHANGED <<parse_vars, program, memory_size, stdin_eof>>

ExecLoopEndNoIncrement ==
    /\ Running("LoopEnd")
    /\ IF ~InBounds
       THEN Return("MemoryAccessError")
       ELSE /\ program_counter' =
                  IF memory[data_pointer] # 0
                  THEN CurrentInstruction.val ELSE program_counter + 1
            /\ UNCHANGED <<pc, result, data_pointer, memory, stdin, stdout>>
    /\ UNCHANGED <<parse_vars, program, memory_size, stdin_eof>>

\* if current_byte != 0 { program_counter = idx; } then program_counter += 1
ExecLoopEnd ==
    /\ Running("LoopEnd")
    /\ IF ~InBounds
       THEN Return("MemoryAccessError")
       ELSE /\ program_counter' =
                  (IF memory[data_pointer] # 0
                   THEN CurrentInstruction.val ELSE program_counter) + 1
            /\ UNCHANGED <<pc, result, data_pointer, memory, stdin, stdout>>
    /\ UNCHANGED <<parse_vars, program, memory_size, stdin_eof>>

\* the while condition fails: ExecutionResult::Ok
ReturnOk ==
    /\ pc = "run"
    /\ program_counter >= Len(program)
    /\ pc' = "returned"
    /\ result' = "Ok"
    /\ UNCHANGED <<parse_vars, program, memory_size, program_counter, data_pointer,
                   memory, stdin, stdin_eof, stdout>>

Next ==
    \/ ScanByte /\ UNCHANGED ref_vars
    \/ EndOfInput /\ UNCHANGED ref_vars
    \/ RunStart /\ UNCHANGED ref_vars
    \/ ExecAdd /\ UNCHANGED ref_vars
    \/ ExecSubtract /\ UNCHANGED ref_vars
    \/ ExecIncrementPointer /\ UNCHANGED ref_vars
    \/ ExecDecrementPointer /\ UNCHANGED ref_vars
    \/ ExecOutput /\ UNCHANGED ref_vars
    \/ ExecInput /\ UNCHANGED ref_vars
    \/ ExecLoopStart /\ UNCHANGED ref_vars
    \/ ExecLoopEnd /\ UNCHANGED ref_vars
    \/ ReturnOk /\ UNCHANGED ref_vars

Spec == Init /\ [][Next]_vars

\* run_program and parse_data are sequential code: the program takes its next
\* step whenever it has one
SpecFair == Spec /\ WF_vars(Next)

-----------------------------------------------------------------------------
(* Reference notions for the parser's properties, defined on the source    *)

Strip(d) == SelectSeq(d, LAMBDA b : b \in Opcodes)

Count(d, b) == Len(SelectSeq(d, LAMBDA x : x = b))

Remove(d, i) == SubSeq(d, 1, i - 1) \o SubSeq(d, i + 1, Len(d))

Insert(d, i, b) == SubSeq(d, 1, i) \o <<b>> \o SubSeq(d, i + 1, Len(d))

\* number of bytes b among the first k bytes of d
CountUpTo(d, b, k) == Cardinality({i \in 1..k : d[i] = b})

\* no `]` is met while no `[` is open, and no `[` is open at the end
Balanced(d) ==
    /\ \A k \in 1..Len(d) :
          d[k] = RBracket => CountUpTo(d, LBracket, k) >= CountUpTo(d, RBracket, k)
    /\ CountUpTo(d, LBracket, Len(d)) = CountUpTo(d, RBracket, Len(d))

\* the maximal runs of a comment-free source: one entry [byte, len] per run
\* of the same foldable operator and one entry per other opcode
RunStarts(s) ==
    {i \in 1..Len(s) :
        i = 1 \/ s[i] \notin {Plus, Minus, Greater, Less} \/ s[i - 1] # s[i]}

Runs(s) ==
    LET starts == RunStarts(s)
        n == Cardinality(starts)
        start(k) == CHOOSE i \in starts : Cardinality({j \in starts : j <= i}) = k
    IN  [k \in 1..n |->
            [byte |-> s[start(k)],
             len |-> (IF k = n THEN Len(s) + 1 ELSE start(k + 1)) - start(k)]]

TagOf(byte) ==
    CASE byte = Plus -> "Add"
      [] byte = Minus -> "Subtract"
      [] byte = Greater -> "IncrementPointer"
      [] byte = Less -> "DecrementPointer"
      [] byte = Dot -> "Output"
      [] byte = Comma -> "Input"
      [] byte = LBracket -> "LoopStart"
      [] byte = RBracket -> "LoopEnd"

WidthOf(tag) == IF tag \in {"Add", "Subtract"} THEN CellMod ELSE PtrMod

Outcome == [ok |-> pc = "parsed", program |-> program]

ParseDone == pc \in {"parsed", "parse_failed"}

-----------------------------------------------------------------------------
(* Properties of parse_data *)

BracketLinked(p) ==
    \A i \in 0..Len(p) - 1 :
        /\ At(p, i).tag = "LoopStart" =>
              LET j == At(p, i).val
              IN  j > i /\ j < Len(p) /\ At(p, j) = LoopEnd(i)
        /\ At(p, i).tag = "LoopEnd" =>
              LET j == At(p, i).val
              IN  j < i /\ At(p, j) = LoopStart(i)

\* C1: every stream parse_data emits is bracket-linked: a LoopStart at i
\* holds j > i with LoopEnd(i) at j, a LoopEnd at j holds i < j with
\* LoopStart(j) at i.
C1_BracketLinked == pc = "parsed" => BracketLinked(program)

\* a parsed stream with a loop nested in a loop
C1_Witness ==
    /\ pc = "parsed"
    /\ \E i, k \in 0..Len(program) - 1 :
          /\ i < k
          /\ At(program, i).tag = "LoopStart"
          /\ At(program, k).tag = "LoopStart"
          /\ At(program, k).val < At(program, i).val

\* C2: parse_data fails exactly when the brackets of the source are
\* unbalanced (a `]` with no `[` open, or the input ends with a `[` open).
C2_FailsIffUnbalanced == ParseDone => (pc = "parse_failed" <=> ~Balanced(data))

\* the input ends while a `[` is still open: b"[[]"
C2_Witness ==
    /\ pc = "parse_failed"
    /\ data = <<LBracket, LBracket, RBracket>>
    /\ pos = Len(data)

\* C3: no two adjacent instructions of an emitted stream have the same
\* foldable tag.
C3_MaximalFolding ==
    pc = "parsed" =>
        \A i \in 1..Len(program) - 1 :
            ~(program[i].tag \in FoldableTags /\ program[i].tag = program[i + 1].tag)

\* two `+` separated by a comment byte are folded into one Add(2)
C3_Witness ==
    /\ pc = "parsed"
    /\ \E c \in CommentBytes : data = <<Plus, c, Plus>>
    /\ program = <<Add(2)>>

\* C4 as stated: every Add, Subtract, IncrementPointer and DecrementPointer
\* of an emitted stream has a payload >= 1, whatever the length of the runs.
C4_PayloadsPositive ==
    pc = "parsed" =>
        \A i \in 1..Len(program) :
            program[i].tag \in FoldableTags => program[i].val >= 1

\* C4 amended: the k-th instruction of the stream is the k-th run of the
\* source; an IncrementPointer or DecrementPointer payload is >= 1, and an
\* Add or Subtract payload is >= 1 exactly when the length of its run is not
\* a multiple of 256, and is 0 when it is.
C4_PayloadsPositiveUnlessWrapped ==
    pc = "parsed" =>
        LET runs == Runs(Strip(data))
        IN  /\ Len(runs) = Len(program)
            /\ \A i \in 1..Len(program) :
                  /\ program[i].tag \in {"IncrementPointer", "DecrementPointer"} =>
                        program[i].val >= 1
                  /\ program[i].tag \in {"Add", "Subtract"} =>
                        /\ program[i].val >= 0
                        /\ program[i].val = 0 <=> runs[i].len % CellMod = 0

\* a run of 256 `-` between other instructions is emitted with payload 0
C4_Witness ==
    /\ pc = "parsed"
    /\ Count(data, Minus) = CellMod
    /\ Len(program) = 2
    /\ program[1] = Subtract(0)
    /\ program[2] = IncrementPointer(1)

\* C5: n >= 1 copies of `+` (and comment bytes only) parse to the single
\* instruction Add(n mod 256); the same for `-` and Subtract.
C5_RunCountWraps ==
    pc = "parsed" =>
        /\ (Strip(data) # <<>> /\ \A i \in 1..Len(data) : data[i] \notin Opcodes \ {Plus})
              => program = <<Add(Count(data, Plus) % CellMod)>>
        /\ (Strip(data) # <<>> /\ \A i \in 1..Len(data) : data[i] \notin Opcodes \ {Minus})
              => program = <<Subtract(Count(data, Minus) % CellMod)>>

\* 256 copies of `+` with a comment byte among them give the one instruction Add(0)
C5_Witness ==
    /\ pc = "parsed"
    /\ Count(data, Plus) = CellMod
    /\ Len(data) = CellMod + 1
    /\ program = <<Add(0)>>

\* C6: parse_data is insensitive to non-opcode bytes: the result is that of
\* the source with its comment bytes removed, and removing or inserting one
\* comment byte at any position leaves the result unchanged (stream or failure).
C6_CommentInsensitive ==
    (ParseDone /\ data \notin LongSources) =>
              /\ parse_data(Strip(data)) = Outcome
              /\ \A i \in 1..Len(data) :
                    data[i] \notin Opcodes => parse_data(Remove(data, i)) = Outcome
              /\ \A i \in 0..Len(data), c \in CommentBytes :
                    parse_data(Insert(data, i, c)) = Outcome

\* a comment byte between two `>`: the run is not ended
C6_Witness ==
    /\ pc = "parsed"
    /\ \E c \in CommentBytes : data = <<Greater, c, Greater, Dot>>
    /\ program = <<IncrementPointer(2), Output>>

\* C7: the emitted stream is, in source order, one instruction per maximal
\* run of the same foldable operator (comments ignored) with count = run
\* length modulo the counter width, and one instruction per `.`, `,`, `[`, `]`.
C7_OneInstructionPerRun ==
    pc = "parsed" =>
        LET runs == Runs(Strip(data))
        IN  /\ Len(program) = Len(runs)
            /\ \A i \in 1..Len(program) :
                  /\ program[i].tag = TagOf(runs[i].byte)
                  /\ program[i].tag \in FoldableTags =>
                        program[i].val = runs[i].len % WidthOf(program[i].tag)

\* tests::optimizations
C7_Witness ==
    /\ pc = "parsed"
    /\ data = <<Plus, Plus, Plus, Plus, Plus, Plus, Dot, Minus, Minus, Minus, Comma>>
    /\ program = <<Add(6), Output, Subtract(3), Input>>

-----------------------------------------------------------------------------
(* Properties of run_program *)

AccessTags == {"Add", "Subtract", "Output", "Input", "LoopStart", "LoopEnd"}

\* run_program is about to execute an instruction that accesses the current cell
AtAccess ==
    /\ pc = "run"
    /\ program_counter < Len(program)
    /\ CurrentInstruction.tag \in AccessTags

\* C8: run_program returns MemoryAccessError exactly when an Add, Subtract,
\* Output, Input, LoopStart or LoopEnd is executed while data_pointer >= N:
\* that step returns the error and leaves memory, input and output alone, and
\* no other step returns MemoryAccessError.
C8_MemoryAccessError ==
    [][/\ (AtAccess /\ data_pointer >= memory_size) =>
             /\ pc' = "returned"
             /\ result' = "MemoryAccessError"
             /\ memory' = memory
             /\ stdin' = stdin
             /\ stdin_eof' = stdin_eof
             /\ stdout' = stdout
       /\ (result' = "MemoryAccessError" /\ result # "MemoryAccessError") =>
             (AtAccess /\ data_pointer >= memory_size)]_vars

\* tests::invalid_memory_access: b">[]" on a memory of one cell
C8_Witness ==
    /\ pc = "returned"
    /\ result = "MemoryAccessError"
    /\ data = <<Greater, LBracket, RBracket>>
    /\ memory_size = 1
    /\ data_pointer = 1
    /\ program_counter = 1

\* C9: IncrementPointer(k) and DecrementPointer(k) never return an error and
\* set data_pointer to (data_pointer + k) mod 2^W resp. (data_pointer - k)
\* mod 2^W, changing nothing else; DecrementPointer(k) followed by
\* IncrementPointer(k) from the start restores the pointer, and b"<>+" with
\* N = 1 returns Ok.
C9_PointerMovesUnchecked ==
    /\ [][/\ Running("IncrementPointer") =>
                /\ pc' = "run"
                /\ result' = "none"
                /\ data_pointer' \in 0..PtrMod - 1
                /\ \E q \in {0, 1} :
                      data_pointer' = data_pointer + CurrentInstruction.val - q * PtrMod
                /\ program_counter' = program_counter + 1
                /\ UNCHANGED <<memory, stdin, stdin_eof, stdout>>
          /\ Running("DecrementPointer") =>
                /\ pc' = "run"
                /\ result' = "none"
                /\ data_pointer' \in 0..PtrMod - 1
                /\ \E q \in {0, 1} :
                      data_pointer' = data_pointer - CurrentInstruction.val + q * PtrMod
                /\ program_counter' = program_counter + 1
                /\ UNCHANGED <<memory, stdin, stdin_eof, stdout>>]_vars
    /\ [](/\ (/\ pc \in {"run", "returned"}
              /\ Len(program) >= 2
              /\ program[1].tag = "DecrementPointer"
              /\ program[2] = IncrementPointer(program[1].val)
              /\ program_counter = 2)
             => data_pointer = 0
          /\ (/\ pc = "returned"
              /\ data = <<Less, Greater, Plus>>
              /\ memory_size >= 1)
             => result = "Ok")

\* tests::invalid_memory_access: b"<>+" on a memory of one cell returns Ok
C9_Witness ==
    /\ pc = "returned"
    /\ result = "Ok"
    /\ data = <<Less, Greater, Plus>>
    /\ memory_size = 1
    /\ data_pointer = 0
    /\ memory[0] = 1

\* the instruction before the current one is DecrementPointer(k), k >= 1, and
\* it was executed with data_pointer = 0 (a jump lands after a bracket, so
\* the instruction before the current one has just been executed)
AfterRetreatFromZero ==
    /\ pc = "run"
    /\ program_counter >= 1
    /\ program_counter < Len(program)
    /\ At(program, program_counter - 1).tag = "DecrementPointer"
    /\ At(program, program_counter - 1).val >= 1
    /\ data_pointer = PtrMod - At(program, program_counter - 1).val

\* C10: DecrementPointer(k), k >= 1, executed with data_pointer = 0 leaves
\* the pointer out of range for every memory size, and the cell access that
\* follows it returns MemoryAccessError and writes no output.
C10_RetreatFromZeroFails ==
    [][/\ (Running("DecrementPointer") /\ CurrentInstruction.val >= 1 /\ data_pointer = 0) =>
             /\ data_pointer' >= memory_size
             /\ data_pointer' = PtrMod - CurrentInstruction.val
       /\ (AfterRetreatFromZero /\ CurrentInstruction.tag \in AccessTags) =>
             /\ pc' = "returned"
             /\ result' = "MemoryAccessError"
             /\ stdout' = stdout]_vars

\* b"<." on a memory of one cell: MemoryAccessError, no output
C10_Witness ==
    /\ pc = "returned"
    /\ result = "MemoryAccessError"
    /\ data = <<Less, Dot>>
    /\ memory_size = 1
    /\ data_pointer = PtrMod - 1
    /\ stdout = <<>>

-----------------------------------------------------------------------------
(* Loop control flow *)

NumTag(p, tag, a, b) == Cardinality({k \in a..b : At(p, k).tag = tag})

\* the brackets strictly between and including i and j pair off
PairsOff(p, i, j) ==
    /\ At(p, i).tag = "LoopStart"
    /\ At(p, j).tag = "LoopEnd"
    /\ NumTag(p, "LoopStart", i, j) = NumTag(p, "LoopEnd", i, j)

\* the LoopEnd matching the LoopStart at i: the nearest one that pairs off
MatchingLoopEnd(p, i) ==
    CHOOSE j \in i + 1..Len(p) - 1 :
        /\ PairsOff(p, i, j)
        /\ \A k \in i + 1..j - 1 : ~PairsOff(p, i, k)

\* the LoopStart matching the LoopEnd at j
MatchingLoopStart(p, j) ==
    CHOOSE i \in 0..j - 1 :
        /\ PairsOff(p, i, j)
        /\ \A k \in i + 1..j - 1 : ~PairsOff(p, k, j)

\* C11: every executed instruction that does not return is followed by the
\* instruction one past its landing index: a LoopStart on a zero cell lands on
\* its matching LoopEnd, a LoopEnd on a nonzero cell lands on its matching
\* LoopStart, every other instruction (and both loop instructions in the two
\* other cases) lands on itself.
C11_LoopControlFlow ==
    [][(pc = "run" /\ pc' = "run") =>
         LET ins == CurrentInstruction
         IN  CASE ins.tag = "LoopStart" /\ memory[data_pointer] = 0 ->
                    /\ program_counter' = MatchingLoopEnd(program, program_counter) + 1
                    /\ program_counter' <= Len(program)
               [] ins.tag = "LoopEnd" /\ memory[data_pointer] # 0 ->
                    /\ program_counter' = MatchingLoopStart(program, program_counter) + 1
                    /\ program_counter' <= program_counter
               [] OTHER -> program_counter' = program_counter + 1]_vars

\* `++[-]` after the first pass of the loop body: the LoopEnd has jumped back
\* to the Subtract with the cell still 1
C11_Witness ==
    /\ pc = "run"
    /\ data = <<Plus, Plus, LBracket, Minus, RBracket>>
    /\ program = <<Add(2), LoopStart(3), Subtract(1), LoopEnd(1)>>
    /\ program_counter = 2
    /\ memory_size = 1
    /\ memory[0] = 1

-----------------------------------------------------------------------------
(* Results *)

IsPrefix(s, t) == Len(s) <= Len(t) /\ SubSeq(t, 1, Len(s)) = s

Failures == {"MemoryAccessError", "IOError"}

\* C12: a result is set exactly when run_program has returned; Ok is set only
\* at the end of the stream; the step that sets a failure executes nothing
\* else (the byte of a failing Output apart, which the write may have passed
\* on before the flush failed); after a result is set no variable changes;
\* and the output only ever grows at its end.
C12_FailuresTerminal ==
    /\ [](result # "none" <=> pc = "returned")
    /\ [][/\ result # "none" => UNCHANGED vars
          /\ (result = "none" /\ result' = "Ok") =>
                /\ pc = "run"
                /\ program_counter >= Len(program)
                /\ UNCHANGED <<program_counter, data_pointer, memory, stdin, stdout>>
          /\ (result = "none" /\ result' \in Failures) =>
                /\ pc = "run"
                /\ program_counter < Len(program)
                /\ UNCHANGED <<program_counter, data_pointer, memory, stdin>>
                /\ stdout' # stdout =>
                      /\ result' = "IOError"
                      /\ CurrentInstruction.tag = "Output"
                      /\ stdout' = Append(stdout, memory[data_pointer])
          /\ IsPrefix(stdout, stdout')]_vars

\* an Output failed after an earlier one had written its byte, with
\* instructions left that are never executed
C12_Witness ==
    /\ pc = "returned"
    /\ result = "IOError"
    /\ stdout # <<>>
    /\ CurrentInstruction.tag = "Output"
    /\ program_counter >= 1
    /\ program_counter + 1 < Len(program)

-----------------------------------------------------------------------------
(* Cell arithmetic *)

\* x is the representative in 0..CellMod - 1 of the integer y
CellOf(x, y) ==
    /\ x \in 0..CellMod - 1
    /\ \E q \in -1..1 : x = y + q * CellMod

OtherCellsKept ==
    /\ DOMAIN memory' = DOMAIN memory
    /\ \A i \in DOMAIN memory : i # data_pointer => memory'[i] = memory[i]

\* C13: with data_pointer < N, Add(k) and Subtract(k) never return and leave
\* (old + k) mod 256 and (old - k) mod 256 in the current cell, so payload 0
\* changes nothing; Add(k) directly followed by Subtract(k) on a cell that
\* was fresh or just read restores it; and `-.` on one fresh cell writes the
\* byte 255 and returns Ok unless the output fails.
C13_CellArithmetic ==
    /\ [][/\ (Running("Add") /\ InBounds) =>
                /\ pc' = "run" /\ result' = "none"
                /\ CellOf(memory'[data_pointer],
                          memory[data_pointer] + CurrentInstruction.val)
                /\ OtherCellsKept
                /\ CurrentInstruction.val = 0 => memory' = memory
          /\ (Running("Subtract") /\ InBounds) =>
                /\ pc' = "run" /\ result' = "none"
                /\ CellOf(memory'[data_pointer],
                          memory[data_pointer] - CurrentInstruction.val)
                /\ OtherCellsKept
                /\ CurrentInstruction.val = 0 => memory' = memory]_vars
    /\ [](\A i \in {0, 1} :
            (/\ pc \in {"run", "returned"}
             /\ memory_size >= 1
             /\ Len(program) >= i + 2
             /\ i = 1 => program[1].tag = "Input"
             /\ program[i + 1].tag = "Add"
             /\ program[i + 2] = Subtract(program[i + 1].val)
             /\ program_counter = i + 2)
            => memory[0] = IF i = 0 \/ stdin_eof \/ stdin = <<>>
                           THEN 0 ELSE stdin[Len(stdin)])
    /\ []((/\ pc = "returned"
           /\ data = <<Minus, Dot>>
           /\ memory_size = 1
           /\ result # "IOError")
          => (result = "Ok" /\ stdout = <<CellMod - 1>>))

\* `-.` has run on one fresh cell
C13_Witness ==
    /\ pc = "returned"
    /\ data = <<Minus, Dot>>
    /\ program = <<Subtract(1), Output>>
    /\ memory_size = 1
    /\ result = "Ok"
    /\ stdout = <<255>>

-----------------------------------------------------------------------------
(* Input *)

\* C14: with data_pointer < N, an Input whose read does not fail continues
\* with the next instruction and changes the current cell only; it takes
\* either exactly the next byte of the input, which becomes the cell, or
\* nothing at the end of the input, and then the cell becomes 0; once the end
\* of the input has been met, every later Input stores 0 again.
C14_InputOneByte ==
    [][(Running("Input") /\ InBounds /\ result' # "IOError") =>
         /\ pc' = "run" /\ result' = "none"
         /\ program_counter' = program_counter + 1
         /\ data_pointer' = data_pointer
         /\ stdout' = stdout
         /\ OtherCellsKept
         /\ \/ /\ ~stdin_eof /\ ~stdin_eof'
               /\ stdin' = Append(stdin, memory'[data_pointer])
            \/ /\ stdin_eof'
               /\ stdin' = stdin
               /\ memory'[data_pointer] = 0
         /\ stdin_eof => (stdin_eof' /\ memory'[data_pointer] = 0)]_vars

\* `,+,` on an empty input: the second Input has put 0 over the 1
C14_Witness ==
    /\ pc = "run"
    /\ data = <<Comma, Plus, Comma>>
    /\ memory_size = 1
    /\ program_counter = 3
    /\ stdin = <<>>
    /\ stdin_eof
    /\ memory[0] = 0

-----------------------------------------------------------------------------
(* Echo: main on the source `,[.,]` *)

EchoSources == {<<Comma, LBracket, Dot, Comma, RBracket>>}

InitEcho == InitWith(EchoSources)

\* the steps `,[.,]` can take
NextEcho ==
    \/ ScanByte /\ UNCHANGED ref_vars
    \/ EndOfInput /\ UNCHANGED ref_vars
    \/ RunStart /\ UNCHANGED ref_vars
    \/ ExecOutput /\ UNCHANGED ref_vars
    \/ ExecInput /\ UNCHANGED ref_vars
    \/ ExecLoopStart /\ UNCHANGED ref_vars
    \/ ExecLoopEnd /\ UNCHANGED ref_vars
    \/ ReturnOk /\ UNCHANGED ref_vars

\* run_program is sequential code: it takes its next step whenever it has one
SpecEcho == InitEcho /\ [][NextEcho]_vars /\ WF_vars(NextEcho)

\* the bytes of s that precede its first zero byte
BeforeZero(s) ==
    LET zeros == {i \in 1..Len(s) : s[i] = 0}
        first == IF zeros = {} THEN Len(s) + 1
                 ELSE CHOOSE i \in zeros : \A k \in zeros : i <= k
    IN  SubSeq(s, 1, first - 1)

\* C15: every run of `,[.,]` returns; with N >= 1 and no failed read, write
\* or flush it returns Ok, having read up to the end of the input or to the
\* first zero byte, and having written exactly the bytes read before that, in
\* order.
C15_EchoUntilEof ==
    /\ <>(pc = "returned")
    /\ []((pc = "returned" /\ memory_size >= 1 /\ result # "IOError") =>
            /\ result = "Ok"
            /\ stdout = BeforeZero(stdin)
            /\ stdin_eof \/ (stdin # <<>> /\ stdin[Len(stdin)] = 0))

\* the input `abc` has been echoed
C15_Witness ==
    /\ pc = "returned"
    /\ program = <<Input, LoopStart(4), Output, Input, LoopEnd(1)>>
    /\ result = "Ok"
    /\ stdin = <<97, 98, 99>>
    /\ stdin_eof
    /\ stdout = <<97, 98, 99>>

-----------------------------------------------------------------------------
(* The bracket stack and the placeholders *)

PlaceholderIndices ==
    {i \in 0..Len(instructions) - 1 : At(instructions, i) = None}

\* C16: in every state of parse_data the bracket stack lists, in increasing
\* order, exactly the indices of the None placeholders of the output; so a
\* parse ends in success only with the stack empty, a parse that reaches the
\* end of the source with the stack nonempty fails, and a failure with the
\* stack empty is the failure of a `]`.
C16_StackIsPlaceholders ==
    /\ \A k \in 1..Len(loop_stack) - 1 : loop_stack[k] < loop_stack[k + 1]
    /\ {loop_stack[k] : k \in DOMAIN loop_stack} = PlaceholderIndices
    /\ pc = "parsed" => loop_stack = <<>>
    /\ (pc # "scan" /\ loop_stack # <<>>) =>
          (pc = "parse_failed" /\ pos = Len(data))
    /\ (pc = "parse_failed" /\ loop_stack = <<>>) =>
          (pos >= 1 /\ data[pos] = RBracket)

\* `[+[` has been read to its end: both placeholders are still on the stack
C16_Witness ==
    /\ pc = "parse_failed"
    /\ data = <<LBracket, Plus, LBracket>>
    /\ instructions = <<None, Add(1), None>>
    /\ loop_stack = <<0, 2>>

-----------------------------------------------------------------------------
(* Frame conditions of run_program *)

\* the arm the next step of the run takes
StepKind ==
    IF program_counter < Len(program) THEN CurrentInstruction.tag ELSE "end"

\* C17: in every step of a run the pointer moves leave memory, input and
\* output alone; Add, Subtract and Input leave data_pointer and every cell
\* but the current one alone; Output, LoopStart, LoopEnd and the final return
\* leave memory and data_pointer alone; the output changes only in an Output,
\* by the current cell appended; the input changes only in an Input; and the
\* memory keeps its N cells.
C17_Frames ==
    /\ [](pc \in {"run", "returned"} => DOMAIN memory = 0..memory_size - 1)
    /\ [][pc = "run" =>
            /\ StepKind \in {"IncrementPointer", "DecrementPointer"} =>
                  UNCHANGED <<memory, stdin, stdin_eof, stdout>>
            /\ StepKind \in {"Add", "Subtract", "Input"} =>
                  /\ data_pointer' = data_pointer
                  /\ IF InBounds THEN OtherCellsKept ELSE memory' = memory
            /\ StepKind \in {"Output", "LoopStart", "LoopEnd", "end"} =>
                  UNCHANGED <<memory, data_pointer>>
            /\ stdout' # stdout =>
                  /\ StepKind = "Output"
                  /\ stdout' = Append(stdout, memory[data_pointer])
            /\ (stdin' # stdin \/ stdin_eof' # stdin_eof) => StepKind = "Input"
            /\ UNCHANGED <<memory_size, program>>
            /\ DOMAIN memory' = DOMAIN memory]_vars

\* `,>+.` on two cells: the byte read into cell 0 is still there after the
\* move, the Add on cell 1 and the Output of cell 1
C17_Witness ==
    /\ pc = "run"
    /\ data = <<Comma, Greater, Plus, Dot>>
    /\ program_counter = 4
    /\ memory_size = 2
    /\ data_pointer = 1
    /\ memory[0] = 97 /\ memory[1] = 1
    /\ stdin = <<97>>
    /\ stdout = <<1>>

-----------------------------------------------------------------------------
(* The program counter *)

LoopTags == {"LoopStart", "LoopEnd"}

\* C19: during and after a run of a parsed stream, program_counter lies in
\* 0..Len(program), so every fetch the while condition lets through is in
\* bounds; every LoopStart and LoopEnd of the stream holds the index of an
\* existing instruction; and the stream length, the largest value the
\* post-increment can produce, is below the width of usize.
C19_ProgramCounterSafe ==
    pc \in {"run", "returned"} =>
        /\ program_counter \in 0..Len(program)
        /\ \A i \in 0..Len(program) - 1 :
              At(program, i).tag \in LoopTags =>
                  At(program, i).val \in 0..Len(program) - 1
        /\ Len(program) < PtrMod

\* `[]` on a zero cell: the skip has landed on the stream length
C19_Witness ==
    /\ pc = "run"
    /\ data = <<LBracket, RBracket>>
    /\ program = <<LoopStart(1), LoopEnd(0)>>
    /\ memory_size = 1
    /\ program_counter = 2

LoopFree(p) == \A i \in 1..Len(p) : p[i].tag \notin LoopTags

\* C20: in a run of a stream without LoopStart and LoopEnd every step either
\* moves program_counter up by exactly 1 or returns, so no instruction is
\* executed twice; every such run returns, with Ok, MemoryAccessError or
\* IOError; and the run of `+[]` on N >= 1 cells never returns.
C20_LoopFreeTerminates ==
    /\ [][(pc = "run" /\ LoopFree(program)) =>
            \/ pc' = "run" /\ program_counter' = program_counter + 1
            \/ pc' = "returned" /\ program_counter' = program_counter]_vars
    /\ (pc = "run" /\ LoopFree(program)) ~> (pc = "returned")
    /\ [](pc = "returned" => result \in {"Ok"} \cup Failures)
    /\ []((data = <<Plus, LBracket, RBracket>> /\ memory_size >= 1)
            => pc # "returned")

\* a stream of four instructions without loops has run to its end
C20_Witness ==
    /\ pc = "returned"
    /\ result = "Ok"
    /\ LoopFree(program)
    /\ Len(program) = 4
    /\ program_counter = 4

-----------------------------------------------------------------------------
(* A reference interpreter, run beside run_program.  It executes the      *)
(* comment-free source one opcode byte at a time: cell +-1 mod 256,       *)
(* pointer +-1 mod 2^W, bounds checked on access only.  It meets the same *)
(* environment as run_program: the bytes run_program read are the bytes   *)
(* it reads, and a read, write or flush that failed for run_program fails *)
(* for it.                                                                *)

\* the `]` closing the `[` at position i of s (positions from 1)
RefClose(s, i) ==
    CHOOSE j \in i + 1..Len(s) :
        /\ s[j] = RBracket
        /\ CountUpTo(s, LBracket, j) - CountUpTo(s, LBracket, i - 1)
              = CountUpTo(s, RBracket, j) - CountUpTo(s, RBracket, i - 1)
        /\ \A k \in i + 1..j - 1 :
              s[k] = RBracket =>
                  CountUpTo(s, LBracket, k) - CountUpTo(s, LBracket, i - 1)
                      # CountUpTo(s, RBracket, k) - CountUpTo(s, RBracket, i - 1)

\* the `[` opened last before position j and closed by the `]` at j
RefOpen(s, j) ==
    CHOOSE i \in 1..j - 1 : s[i] = LBracket /\ RefClose(s, i) = j

RefStart(n) ==
    [RefIdle EXCEPT !.memory = [i \in 0..n - 1 |-> 0]]

\* one opcode byte executed from the state r
RefStep(r) ==
    LET s == Strip(data)
        b == s[r.pos + 1]
        cell == r.memory[r.data_pointer]
        next == [r EXCEPT !.pos = @ + 1]
    IN  IF r.pos >= Len(s) THEN [r EXCEPT !.result = "Ok"]
        ELSE IF b = Greater
             THEN [next EXCEPT !.data_pointer = (@ + 1) % PtrMod]
        ELSE IF b = Less
             THEN [next EXCEPT !.data_pointer = (@ + PtrMod - 1) % PtrMod]
        ELSE IF r.data_pointer \notin DOMAIN r.memory
             THEN [r EXCEPT !.result = "MemoryAccessError"]
        ELSE IF b = Plus
             THEN [next EXCEPT !.memory[r.data_pointer] = (@ + 1) % CellMod]
        ELSE IF b = Minus
             THEN [next EXCEPT !.memory[r.data_pointer] = (@ + CellMod - 1) % CellMod]
        ELSE IF b = Dot
             THEN IF result = "IOError"
                  THEN [r EXCEPT !.result = "IOError",
                                 !.stdout = IF Len(stdout) > Len(@)
                                            THEN Append(@, cell) ELSE @]
                  ELSE [next EXCEPT !.stdout = Append(@, cell)]
        ELSE IF b = Comma
             THEN IF result = "IOError"
                  THEN [r EXCEPT !.result = "IOError"]
                  ELSE IF Len(stdin) > r.consumed
                  THEN [next EXCEPT !.memory[r.data_pointer] = stdin[r.consumed + 1],
                                    !.consumed = @ + 1]
                  ELSE [next EXCEPT !.memory[r.data_pointer] = 0]
        ELSE IF b = LBracket
             THEN IF cell = 0 THEN [r EXCEPT !.pos = RefClose(s, r.pos + 1)] ELSE next
        ELSE IF cell # 0 THEN [r EXCEPT !.pos = RefOpen(s, r.pos + 1)] ELSE next

\* the byte just executed was the last of its run of identical operators
RunEnds(r, q) ==
    LET s == Strip(data)
    IN  \/ q.result # "none"
        \/ s[r.pos + 1] \notin {Plus, Minus, Greater, Less}
        \/ q.pos >= Len(s)
        \/ s[q.pos + 1] # s[r.pos + 1]

\* run_program takes a step; the reference interpreter then owes its bytes
Lead(step) ==
    /\ ~behind
    /\ step
    /\ behind' = TRUE
    /\ UNCHANGED ref

\* the reference interpreter executes one byte of what it owes
Follow ==
    /\ behind
    /\ ref.result = "none"
    /\ LET q == RefStep(ref)
       IN  /\ ref' = q
           /\ behind' = ~RunEnds(ref, q)
    /\ UNCHANGED <<parse_vars, pc, program, run_vars>>

RefRunStart ==
    /\ RunStart
    /\ ref' = RefStart(memory_size')
    /\ behind' = FALSE

\* runs of one foldable operator around the width of the u8 counter, then at
\* most one more opcode
RefWrapSources ==
    {Rep(b, n) \o x :
        b \in {Plus, Minus, Greater, Less},
        n \in {CellMod - 1, CellMod, CellMod + 1},
        x \in SeqsUpTo(Opcodes, 1)}

InitRef == InitWith(ProgSources \cup LoopSources \cup RefWrapSources)

NextRef ==
    \/ ScanByte /\ UNCHANGED ref_vars
    \/ EndOfInput /\ UNCHANGED ref_vars
    \/ RefRunStart
    \/ Lead(ExecAdd)
    \/ Lead(ExecSubtract)
    \/ Lead(ExecIncrementPointer)
    \/ Lead(ExecDecrementPointer)
    \/ Lead(ExecOutput)
    \/ Lead(ExecInput)
    \/ Lead(ExecLoopStart)
    \/ Lead(ExecLoopEnd)
    \/ Lead(ReturnOk)
    \/ Follow

SpecRef == InitRef /\ [][NextRef]_vars

\* C18: whenever the reference interpreter has executed the source bytes of
\* every instruction run_program has executed, the two agree on the data
\* pointer, the memory, the bytes written, the bytes read and the result
\* (none yet, Ok, MemoryAccessError or IOError).
C18_FoldingPreservesBehaviour ==
    (pc \in {"run", "returned"} /\ ~behind) =>
        /\ ref.data_pointer = data_pointer
        /\ ref.memory = memory
        /\ ref.stdout = stdout
        /\ ref.consumed = Len(stdin)
        /\ ref.result = result

\* 256 `+` and a `.`: Add(0) and 256 increments have both left 0 to write
C18_Witness ==
    /\ pc = "returned"
    /\ ~behind
    /\ data = Rep(Plus, CellMod) \o <<Dot>>
    /\ program = <<Add(0), Output>>
    /\ ref.pos = CellMod + 1
    /\ ref.result = "Ok"
    /\ result = "Ok"
    /\ stdout = <<0>>

====
